---------------------------- MODULE Spec2Model ----------------------------
(***************************************************************************)
(* Model of the solar-system scene of frontend/src/components/            *)
(* PlanetarySystem.jsx with the body registry and default settings of the *)
(* data module (planetaryData, simulationSettings).                       *)
(*                                                                         *)
(* Units.  Lengths are held in hundredths (radius 0.8 is 80, orbitRadius   *)
(* 15 is 1500), simulation time in hundredths (one frame at timeSpeed 1    *)
(* adds 0.01, i.e. 1), rotation angles in thousandths of a radian,         *)
(* orbitSpeed in units of 0.005.  Orbit angles are reduced onto a grid of  *)
(* twelve steps per turn, on which Math.cos and Math.sin are held as the   *)
(* fixed-point tables 5*cos and 5*sin rounded to the nearest integer; on   *)
(* this grid cos^2 + sin^2 = 1 holds exactly, as it does for the reals.    *)
(*                                                                         *)
(* React.  A state setter (setTime, setSettings, setSelectedPlanet) is     *)
(* followed by the re-render it schedules before the next handler or the   *)
(* next animation frame runs; the render refreshes the values the frame    *)
(* callbacks close over (rendered) and the emitted scene graph (scene).    *)
(* The useFrame callbacks of one animation frame run in one go, the        *)
(* Planet callbacks (children) before the SolarSystemScene callback.       *)
(***************************************************************************)
EXTENDS Integers, Sequences, FiniteSets

VARIABLES
    planetaryData,   \* the body registry imported from the data module
    settings,        \* PlanetarySystem: useState(simulationSettings)
    selectedPlanet,  \* PlanetarySystem: useState(null); <<>> is null
    time,            \* SolarSystemScene: useState(0)
    rendered,        \* props/closure values of the last render: time, settings
    mesh,            \* meshRef.current of every Planet: position and rotation.y
    scene,           \* elements emitted by the last render: guides, labels
    frames,          \* number of animation frames run so far
    frameSnap,       \* history: the time prop the most recent frame read
    lastEvent        \* history: the most recent handler and its arguments

vars == <<planetaryData, settings, selectedPlanet, time, rendered, mesh,
          scene, frames, frameSnap, lastEvent>>

-----------------------------------------------------------------------------
\* Bounds of the model.

MaxFrames == 3

\* timeSpeed values the UI hands to handleSettingChange (slider 0..5, and a
\* negative value set programmatically).
TimeSpeedValues == {-1, 0, 1, 2}

\* Values of the moon's parent field in the registries explored: the shipped
\* one, another body of the registry, and an id that is not in the registry.
ParentValues == {"earth", "venus", "pluto"}

-----------------------------------------------------------------------------
\* Fixed-point trigonometry.

CosTable == <<5, 4, 3, 0, -3, -4, -5, -4, -3, 0, 3, 4>>
SinTable == <<0, 3, 4, 5, 4, 3, 0, -3, -4, -5, -4, -3>>
TrigScale == CosTable[1]
AnglePeriod == Len(CosTable)

Cos(angle) == CosTable[(angle % AnglePeriod) + 1]
Sin(angle) == SinTable[(angle % AnglePeriod) + 1]

\* Math.cos(angle) * r and Math.sin(angle) * r for a length r in hundredths.
CosTimes(angle, r) == (Cos(angle) * r) \div TrigScale
SinTimes(angle, r) == (Sin(angle) * r) \div TrigScale

-----------------------------------------------------------------------------
\* The data module.  An absent orbitRadius or orbitSpeed is 0 and an absent
\* parent is "" (all falsy in the tests of the code, like undefined).

BodyOrder == <<"sun", "mercury", "venus", "earth", "moon">>
BodyIds == {BodyOrder[i] : i \in 1..Len(BodyOrder)}

MockData(moonParent) ==
    [ sun |->
        [id |-> "sun", name |-> "Sun", radius |-> 500, color |-> "#FDB813",
         orbitRadius |-> 0, orbitSpeed |-> 0, rotationSpeed |-> 1,
         parent |-> "", position |-> <<0, 0, 0>>,
         facts |-> <<"Temperature: 5,778 K (surface)", "Mass: 1.989e30 kg",
                     "Diameter: 1.39 million km", "Age: 4.6 billion years">>],
      mercury |->
        [id |-> "mercury", name |-> "Mercury", radius |-> 80, color |-> "#8C7853",
         orbitRadius |-> 1500, orbitSpeed |-> 4, rotationSpeed |-> 5,
         parent |-> "", position |-> <<1500, 0, 0>>,
         facts |-> <<"Distance from Sun: 58 million km", "Orbital period: 88 Earth days",
                     "Day length: 59 Earth days", "No atmosphere">>],
      venus |->
        [id |-> "venus", name |-> "Venus", radius |-> 120, color |-> "#FFC649",
         orbitRadius |-> 2200, orbitSpeed |-> 3, rotationSpeed |-> -2,
         parent |-> "", position |-> <<2200, 0, 0>>,
         facts |-> <<"Distance from Sun: 108 million km", "Orbital period: 225 Earth days",
                     "Day length: 243 Earth days", "Thick CO2 atmosphere">>],
      earth |->
        [id |-> "earth", name |-> "Earth", radius |-> 130, color |-> "#6B93D6",
         orbitRadius |-> 3000, orbitSpeed |-> 2, rotationSpeed |-> 10,
         parent |-> "", position |-> <<3000, 0, 0>>,
         facts |-> <<"Distance from Sun: 150 million km", "Orbital period: 365.25 days",
                     "Day length: 24 hours", "Atmosphere: 78% N2, 21% O2">>],
      moon |->
        [id |-> "moon", name |-> "Moon", radius |-> 35, color |-> "#D3D3D3",
         orbitRadius |-> 400, orbitSpeed |-> 10, rotationSpeed |-> 50,
         parent |-> moonParent, position |-> <<3400, 0, 0>>,
         facts |-> <<"Distance from Earth: 384,400 km", "Orbital period: 27.3 days",
                     "Tidally locked to Earth", "Diameter: 3,474 km">>] ]

simulationSettings ==
    [timeSpeed |-> 1, showOrbits |-> TRUE, showLabels |-> TRUE,
     cameraDistance |-> 80, ambientLightIntensity |-> 20,
     pointLightIntensity |-> 150]

\* The time added per frame and per unit of timeSpeed: 0.01.
FrameConstant == 1

\* The gap between a body's top and its label: 2.
LabelGap == 200

-----------------------------------------------------------------------------
\* Variant of PlanetFrame that assigns the spin instead of accumulating it
\* (rotation.y = rotationSpeed).
PlanetFrameSpinAssigned(m, data, t, registry) ==
    LET spun == [m EXCEPT !.rotY = data.rotationSpeed]
    IN  IF data.orbitRadius # 0 /\ data.parent = ""
        THEN LET angle == t * data.orbitSpeed
             IN  [spun EXCEPT !.x = CosTimes(angle, data.orbitRadius),
                              !.z = SinTimes(angle, data.orbitRadius)]
        ELSE IF data.parent # ""
        THEN LET earthAngle == t * registry.earth.orbitSpeed
                 earthX == CosTimes(earthAngle, registry.earth.orbitRadius)
                 earthZ == SinTimes(earthAngle, registry.earth.orbitRadius)
                 moonAngle == t * data.orbitSpeed
             IN  [spun EXCEPT !.x = earthX + CosTimes(moonAngle, data.orbitRadius),
                              !.z = earthZ + SinTimes(moonAngle, data.orbitRadius)]
        ELSE spun

\* Variant of PlanetFrame whose child branch takes the child's angle from
\* the earth's orbitSpeed (a copied line left unedited).
PlanetFrameCopiedAngle(m, data, t, registry) ==
    LET spun == [m EXCEPT !.rotY = m.rotY + data.rotationSpeed]
    IN  IF data.orbitRadius # 0 /\ data.parent = ""
        THEN LET angle == t * data.orbitSpeed
             IN  [spun EXCEPT !.x = CosTimes(angle, data.orbitRadius),
                              !.z = SinTimes(angle, data.orbitRadius)]
        ELSE IF data.parent # ""
        THEN LET earthAngle == t * registry.earth.orbitSpeed
                 earthX == CosTimes(earthAngle, registry.earth.orbitRadius)
                 earthZ == SinTimes(earthAngle, registry.earth.orbitRadius)
                 moonAngle == t * registry.earth.orbitSpeed
             IN  [spun EXCEPT !.x = earthX + CosTimes(moonAngle, data.orbitRadius),
                              !.z = earthZ + SinTimes(moonAngle, data.orbitRadius)]
        ELSE spun

\* Planet: the useFrame callback.  m is meshRef.current, data and t the
\* Planet's props, registry the imported planetaryData.

PlanetFrame(m, data, t, registry) ==
    LET spun == [m EXCEPT !.rotY = m.rotY + data.rotationSpeed]
    IN  IF data.orbitRadius # 0 /\ data.parent = ""
        THEN LET angle == t * data.orbitSpeed
             IN  [spun EXCEPT !.x = CosTimes(angle, data.orbitRadius),
                              !.z = SinTimes(angle, data.orbitRadius)]
        ELSE IF data.parent # ""
        THEN LET earthAngle == t * registry.earth.orbitSpeed
                 earthX == CosTimes(earthAngle, registry.earth.orbitRadius)
                 earthZ == SinTimes(earthAngle, registry.earth.orbitRadius)
                 moonAngle == t * data.orbitSpeed
             IN  [spun EXCEPT !.x = earthX + CosTimes(moonAngle, data.orbitRadius),
                              !.z = earthZ + SinTimes(moonAngle, data.orbitRadius)]
        ELSE spun

\* Planet: the mesh as mounted, at data.position and unrotated.
InitialMesh(data) ==
    [x |-> data.position[1], y |-> data.position[2], z |-> data.position[3],
     rotY |-> 0]

\* Planet: the Text element, <<>> when showLabels is false.
PlanetLabel(data, showLabels) ==
    IF showLabels
    THEN << [text |-> data.name,
             x |-> data.position[1],
             y |-> data.position[2] + data.radius + LabelGap,
             z |-> data.position[3]] >>
    ELSE << >>

\* Variant of OrbitPath that ignores its visible prop.
OrbitPathAlwaysVisible(radius, visible) == << [radius |-> radius] >>

\* OrbitPath: the line element of one guide, <<>> when it returns null.
OrbitPath(radius, visible) ==
    IF visible THEN << [radius |-> radius] >> ELSE << >>

RECURSIVE RootOrbitPaths(_, _, _)
\* SolarSystemScene: the map over Object.values(planetaryData) emitting the
\* guides of the bodies that have an orbitRadius and no parent.
RootOrbitPaths(registry, s, i) ==
    IF i > Len(BodyOrder) THEN << >>
    ELSE LET planet == registry[BodyOrder[i]]
         IN  (IF planet.orbitRadius # 0 /\ planet.parent = ""
              THEN OrbitPath(planet.orbitRadius, s.showOrbits)
              ELSE << >>)
             \o RootOrbitPaths(registry, s, i + 1)

\* SolarSystemScene: the group holding the moon's guide.
MoonOrbitPath(registry, s) ==
    IF s.showOrbits
    THEN OrbitPath(registry.moon.orbitRadius, s.showOrbits)
    ELSE << >>

\* SolarSystemScene: the elements one render emits.
Compose(registry, s) ==
    [guides |-> RootOrbitPaths(registry, s, 1) \o MoonOrbitPath(registry, s),
     labels |-> [id \in BodyIds |-> PlanetLabel(registry[id], s.showLabels)]]

\* The values the frame callbacks close over after a render.
Render(t, s) == [time |-> t, settings |-> s]

\* Variant of AdvanceTime that drops the previous value.
AdvanceTimeDropsPrev(prev, s) == s.timeSpeed * FrameConstant

\* Variant of AdvanceTime that reads the imported default settings instead
\* of the settings prop.
AdvanceTimeDefaultSpeed(prev, s) == prev + simulationSettings.timeSpeed * FrameConstant

\* SolarSystemScene: the updater handed to setTime, the scene's settings prop s.
AdvanceTime(prev, s) == prev + s.timeSpeed * FrameConstant

\* Variant of MergeSetting that spreads the imported defaults instead of prev.
MergeSettingOntoDefaults(prev, key, value) ==
    [simulationSettings EXCEPT ![key] = value]

\* handleSettingChange: the updater handed to setSettings.
MergeSetting(prev, key, value) == [prev EXCEPT ![key] = value]

\* Variant of ClickedPlanet that hands over the record without its facts.
ClickedPlanetNoFacts(planet) == << [planet EXCEPT !.facts = << >>] >>

\* handlePlanetClick: the value handed to setSelectedPlanet.
ClickedPlanet(planet) == << planet >>

-----------------------------------------------------------------------------
Init ==
    /\ \E p \in ParentValues : planetaryData = MockData(p)
    /\ settings = simulationSettings
    /\ selectedPlanet = << >>
    /\ time = 0
    /\ rendered = Render(0, simulationSettings)
    /\ mesh = [id \in BodyIds |-> InitialMesh(planetaryData[id])]
    /\ scene = Compose(planetaryData, simulationSettings)
    /\ frames = 0
    /\ frameSnap = << >>
    /\ lastEvent = [op |-> "mount"]

\* One animation frame: every Planet callback, then the scene's callback,
\* then the render that setTime schedules.
Frame ==
    /\ frames < MaxFrames
    /\ mesh' = [id \in BodyIds |->
                  PlanetFrame(mesh[id], planetaryData[id], rendered.time, planetaryData)]
    /\ time' = AdvanceTime(time, rendered.settings)
    /\ rendered' = Render(time', settings)
    /\ scene' = Compose(planetaryData, settings)
    /\ frames' = frames + 1
    /\ frameSnap' = << [time |-> rendered.time] >>
    /\ lastEvent' = [op |-> "frame"]
    /\ UNCHANGED <<planetaryData, settings, selectedPlanet>>

\* A control of the panel calls handleSettingChange(key, value).
handleSettingChange(key, value) ==
    /\ settings' = MergeSetting(settings, key, value)
    /\ rendered' = Render(time, settings')
    /\ scene' = Compose(planetaryData, settings')
    /\ lastEvent' = [op |-> "setting", key |-> key, value |-> value]
    /\ UNCHANGED <<planetaryData, selectedPlanet, time, mesh, frames, frameSnap>>

SettingChange ==
    \/ \E v \in TimeSpeedValues : handleSettingChange("timeSpeed", v)
    \/ \E v \in BOOLEAN : handleSettingChange("showOrbits", v)
    \/ \E v \in BOOLEAN : handleSettingChange("showLabels", v)

\* A click on the mesh of body id: onClick(data), i.e. handlePlanetClick.
handlePlanetClick(id) ==
    /\ selectedPlanet' = ClickedPlanet(planetaryData[id])
    /\ lastEvent' = [op |-> "click", id |-> id]
    /\ UNCHANGED <<planetaryData, settings, time, rendered, mesh, scene,
                   frames, frameSnap>>

\* The close button of the information panel, shown while a body is selected.
Dismiss ==
    /\ selectedPlanet # << >>
    /\ selectedPlanet' = << >>
    /\ lastEvent' = [op |-> "dismiss"]
    /\ UNCHANGED <<planetaryData, settings, time, rendered, mesh, scene,
                   frames, frameSnap>>

Next ==
    \/ Frame
    \/ SettingChange
    \/ \E id \in BodyIds : handlePlanetClick(id)
    \/ Dismiss

Spec == Init /\ [][Next]_vars

-----------------------------------------------------------------------------
\* Vocabulary of the properties.

\* The step is an animation frame.
IsFrameStep == frames' = frames + 1

\* The horizontal position of a mesh.
XZ(m) == <<m.x, m.z>>

\* (cos(t * orbitSpeed) * orbitRadius, sin(t * orbitSpeed) * orbitRadius).
OrbitOffset(data, t) ==
    <<CosTimes(t * data.orbitSpeed, data.orbitRadius),
      SinTimes(t * data.orbitSpeed, data.orbitRadius)>>

\* The position of a parentless body at time t: on its circle round the
\* origin, or at its base position when it has no orbit.
RootOrbitRule(data, t) ==
    IF data.orbitRadius # 0
    THEN OrbitOffset(data, t)
    ELSE <<data.position[1], data.position[3]>>

Plus(p, q) == <<p[1] + q[1], p[2] + q[2]>>

SquaredDistance(p, q) ==
    (p[1] - q[1]) * (p[1] - q[1]) + (p[2] - q[2]) * (p[2] - q[2])

\* The position a frame reading time t writes for body id: round the origin
\* for a parentless orbiting body, round the earth for a body with a parent,
\* where it already is for a body with neither.
WrittenPosition(id, t) ==
    LET data == planetaryData[id]
    IN  IF data.parent # ""
        THEN Plus(RootOrbitRule(planetaryData.earth, t), OrbitOffset(data, t))
        ELSE IF data.orbitRadius # 0
        THEN OrbitOffset(data, t)
        ELSE XZ(mesh[id])

OrbitingIds == {id \in BodyIds : planetaryData[id].orbitRadius # 0}

\* Some body names a parent that is not an id of the registry.
DanglingParent ==
    \E id \in BodyIds :
        /\ planetaryData[id].parent # ""
        /\ planetaryData[id].parent \notin DOMAIN planetaryData

-----------------------------------------------------------------------------
C2_TimeAdvancedOnlyByFrames ==
    /\ time = 0
    /\ [][ IF IsFrameStep
           THEN /\ time' = time + settings.timeSpeed * FrameConstant
                /\ settings.timeSpeed >= 0 => time' >= time
           ELSE time' = time ]_vars

\* Two frames at speeds 1 and 2 have run, then a body was clicked.
C2_Witness ==
    /\ frames = 2
    /\ time = 3
    /\ settings.timeSpeed = 2
    /\ lastEvent.op = "click"

\* C3: after a frame, every body whose parent P is in the registry is at the
\* root-orbit position of P at the time the frame read plus its own offset,
\* hence exactly its orbitRadius away from P.
C3_ChildOrbitsItsOwnParent ==
    frameSnap # << >> =>
        \A id \in BodyIds :
            LET data == planetaryData[id]
                t == frameSnap[1].time
            IN  (data.parent # "" /\ data.parent \in DOMAIN planetaryData) =>
                    LET parentPosition == RootOrbitRule(planetaryData[data.parent], t)
                    IN  /\ XZ(mesh[id]) = Plus(parentPosition, OrbitOffset(data, t))
                        /\ SquaredDistance(XZ(mesh[id]), parentPosition)
                              = data.orbitRadius * data.orbitRadius

\* C4: while showOrbits is false the scene holds no orbit guide; while it is
\* true it holds exactly one guide per body that has an orbitRadius, of that
\* radius.
C4_GuidesFollowShowOrbits ==
    IF settings.showOrbits
    THEN /\ Len(scene.guides) = Cardinality(OrbitingIds)
         /\ \A id \in OrbitingIds :
               Cardinality({i \in 1..Len(scene.guides) :
                              scene.guides[i].radius = planetaryData[id].orbitRadius}) = 1
    ELSE scene.guides = << >>

\* showOrbits was switched off and a frame has been composed since.
C4_Witness ==
    /\ ~settings.showOrbits
    /\ lastEvent.op = "frame"
    /\ frames = 2
    /\ scene.guides = << >>

\* C5: the selection is none initially; a click makes it the clicked body's
\* registry record, facts included; a dismissal makes it none; no other step
\* changes it.
C5_SelectionIsLastClickUnlessDismissed ==
    /\ selectedPlanet = << >>
    /\ [][ CASE lastEvent'.op = "click" ->
                  /\ selectedPlanet' = << planetaryData[lastEvent'.id] >>
                  /\ selectedPlanet'[1].facts = MockData("earth")[lastEvent'.id].facts
             [] lastEvent'.op = "dismiss" -> selectedPlanet' = << >>
             [] OTHER -> selectedPlanet' = selectedPlanet ]_vars

\* Mercury was clicked, then a setting changed and a frame ran.
C5_Witness ==
    /\ Len(selectedPlanet) = 1
    /\ selectedPlanet[1].id = "mercury"
    /\ Len(selectedPlanet[1].facts) = 4
    /\ lastEvent.op = "frame"
    /\ settings # simulationSettings

\* C6: handleSettingChange(key, value) makes the field key equal to value,
\* whatever the value, and leaves the other fields of the settings, the
\* selection and the simulation time as they were.
C6_SettingChangeTouchesOneField ==
    [][ lastEvent'.op = "setting" =>
          /\ DOMAIN settings' = DOMAIN settings
          /\ settings'[lastEvent'.key] = lastEvent'.value
          /\ \A f \in DOMAIN settings \ {lastEvent'.key} : settings'[f] = settings[f]
          /\ selectedPlanet' = selectedPlanet
          /\ time' = time ]_vars

\* timeSpeed was just set to -1 while showOrbits and showLabels were off, a
\* body was selected and the clock had advanced.
C6_Witness ==
    /\ lastEvent = [op |-> "setting", key |-> "timeSpeed", value |-> -1]
    /\ settings.timeSpeed = -1
    /\ ~settings.showOrbits
    /\ ~settings.showLabels
    /\ settings.cameraDistance = 80
    /\ selectedPlanet # << >>
    /\ time = 2

\* C7: a registry in which some body names a parent that is not in the
\* registry never gets as far as a frame.
C7_DanglingParentRejected ==
    DanglingParent => (frames = 0 /\ frameSnap = << >>)

\* C8 as stated: the positions a frame writes are those of the simulation
\* time after that frame's increment.
C8_PositionsUseAdvancedTime ==
    [][ IsFrameStep =>
          \A id \in BodyIds : XZ(mesh'[id]) = WrittenPosition(id, time') ]_vars

\* C8 as amended: the positions a frame writes are, for every body, those of
\* the simulation time before that frame's increment.
C8_PositionsUseTimeBeforeIncrement ==
    [][ IsFrameStep =>
          /\ \A id \in BodyIds : XZ(mesh'[id]) = WrittenPosition(id, time)
          /\ frameSnap' = << [time |-> time] >>
          /\ time' = time + settings.timeSpeed * FrameConstant ]_vars

\* The second frame has run at timeSpeed 2: it read time 1 and left time 3,
\* and mercury and the moon are where time 1 puts them.
C8_Witness ==
    /\ frames = 2
    /\ lastEvent.op = "frame"
    /\ frameSnap = << [time |-> 1] >>
    /\ time = 3
    /\ XZ(mesh["mercury"]) = OrbitOffset(planetaryData["mercury"], 1)
    /\ XZ(mesh["mercury"]) # OrbitOffset(planetaryData["mercury"], 3)
    /\ XZ(mesh["moon"]) = WrittenPosition("moon", 1)

\* C9: while showLabels is true every body has a label whose x and z are the
\* body's current x and z and whose y is the body's y plus its radius plus
\* the gap; while it is false there is no label.
C9_LabelAboveBody ==
    \A id \in BodyIds :
        IF settings.showLabels
        THEN /\ Len(scene.labels[id]) = 1
             /\ scene.labels[id][1].x = mesh[id].x
             /\ scene.labels[id][1].z = mesh[id].z
             /\ scene.labels[id][1].y = mesh[id].y + planetaryData[id].radius + LabelGap
        ELSE scene.labels[id] = << >>

\* C10: the frame that follows a change of timeSpeed to v adds v * 0.01, and
\* the scene composed by the frame that follows a change of showOrbits or
\* showLabels has guides and labels exactly when the new value is true.
C10_NextFrameUsesNewSetting ==
    [][ (IsFrameStep /\ lastEvent.op = "setting") =>
          CASE lastEvent.key = "timeSpeed" ->
                 time' = time + lastEvent.value * FrameConstant
            [] lastEvent.key = "showOrbits" ->
                 (scene'.guides # << >>) = lastEvent.value
            [] lastEvent.key = "showLabels" ->
                 \A id \in BodyIds : (scene'.labels[id] # << >>) = lastEvent.value
            [] OTHER -> TRUE ]_vars

\* After a frame at the default speed the speed was set to 2 and the next
\* frame added 2.
C10_Witness ==
    /\ frames = 2
    /\ lastEvent.op = "frame"
    /\ frameSnap = << [time |-> 1] >>
    /\ settings.timeSpeed = 2
    /\ time = 3

=============================================================================
